---- MODULE Spec2Model ----
(***************************************************************************)
(* TokenProbabilityVisualizer: the zod schemas that validate a chat        *)
(* completion, the fetchCompletion handler and renderTokenColumns.         *)
(***************************************************************************)
EXTENDS Integers, Sequences, FiniteSets, TLC

VARIABLES
    loading,     \* useState(false): the Generate button is disabled while true
    completion,  \* useState<ChatCompletion | null>(null)
    pending,     \* the fetchCompletion invocations suspended at an await
    status,      \* response.status of the current invocation, 0: no response
    data,        \* the local `data` of the current invocation
    result,      \* what ChatCompletionSchema.safeParse returned in it
    logged       \* the console.error calls of the current invocation

vars == <<loading, completion, pending, status, data, result, logged>>

(***************************************************************************)
(* JSON values, as response.json() yields them. A number n stands for the  *)
(* JSON number n/2, so that 3 is the non-integer 1.5 and 4 the integer 2.  *)
(***************************************************************************)
Undefined == [k |-> "undefined"]
JNull == [k |-> "null"]
JStr(s) == [k |-> "string", s |-> s]
JNum(n) == [k |-> "number", n |-> n]
JInt(i) == JNum(2 * i)
JArr(a) == [k |-> "array", a |-> a]
JObj(o) == [k |-> "object", o |-> o]

\* data[key] of JavaScript: undefined for an absent key
Get(v, key) == IF key \in DOMAIN v.o THEN v.o[key] ELSE Undefined

\* the elements of a zod issue path: an object key or an array index
Key(s) == [key |-> s]
Idx(i) == [idx |-> i]

(***************************************************************************)
(* zod: the schema constructors the source uses, and parsing.              *)
(***************************************************************************)
ZString == [t |-> "string"]
ZNumber == [t |-> "number"]
ZNull == [t |-> "null"]
ZArray(el) == [t |-> "array", el |-> el]
ZNullable(inner) == [t |-> "nullable", inner |-> inner]
ZObject(shape) == [t |-> "object", shape |-> shape]

Issue(path, expected, v) ==
    [code |-> "invalid_type", path |-> path, expected |-> expected, received |-> v.k]

Valid(v) == [issues |-> <<>>, value |-> v]
Invalid(issues) == [issues |-> issues, value |-> Undefined]

EmptyObject == [x \in {} |-> Undefined]

RECURSIVE Parse(_, _, _)
RECURSIVE ParseKeys(_, _, _, _)
RECURSIVE ParseItems(_, _, _, _)

\* ZodObject._parse: every key of the shape is parsed, the issues of all of
\* them are collected, and the keys the shape does not name are stripped
ParseKeys(shape, i, v, path) ==
    IF i > Len(shape) THEN [issues |-> <<>>, o |-> EmptyObject]
    ELSE LET key == shape[i][1]
             r == Parse(shape[i][2], Get(v, key), Append(path, Key(key)))
             rest == ParseKeys(shape, i + 1, v, path)
         IN  [issues |-> r.issues \o rest.issues,
              o |-> IF r.issues = <<>> THEN (key :> r.value) @@ rest.o ELSE rest.o]

\* ZodArray._parse: every element is parsed, at path + index (from 0)
ParseItems(el, i, a, path) ==
    IF i > Len(a) THEN [issues |-> <<>>, a |-> <<>>]
    ELSE LET r == Parse(el, a[i], Append(path, Idx(i - 1)))
             rest == ParseItems(el, i + 1, a, path)
         IN  [issues |-> r.issues \o rest.issues,
              a |-> IF r.issues = <<>> THEN <<r.value>> \o rest.a ELSE rest.a]

Parse(schema, v, path) ==
    CASE schema.t = "string" ->
            IF v.k = "string" THEN Valid(v) ELSE Invalid(<<Issue(path, "string", v)>>)
      [] schema.t = "number" ->
            IF v.k = "number" THEN Valid(v) ELSE Invalid(<<Issue(path, "number", v)>>)
      [] schema.t = "null" ->
            IF v.k = "null" THEN Valid(v) ELSE Invalid(<<Issue(path, "null", v)>>)
      [] schema.t = "nullable" ->
            IF v.k = "null" THEN Valid(v) ELSE Parse(schema.inner, v, path)
      [] schema.t = "array" ->
            IF v.k # "array" THEN Invalid(<<Issue(path, "array", v)>>)
            ELSE LET r == ParseItems(schema.el, 1, v.a, path)
                 IN  IF r.issues = <<>> THEN Valid(JArr(r.a)) ELSE Invalid(r.issues)
      [] schema.t = "object" ->
            IF v.k # "object" THEN Invalid(<<Issue(path, "object", v)>>)
            ELSE LET r == ParseKeys(schema.shape, 1, v, path)
                 IN  IF r.issues = <<>> THEN Valid(JObj(r.o)) ELSE Invalid(r.issues)

(***************************************************************************)
(* The schemas of the source.                                              *)
(***************************************************************************)
TopLogProbSchema ==
    ZObject(<< <<"token", ZString>>,
               <<"logprob", ZNumber>>,
               <<"bytes", ZNullable(ZArray(ZNumber))>> >>)

LogProbContentSchema ==
    ZObject(<< <<"token", ZString>>,
               <<"logprob", ZNumber>>,
               <<"bytes", ZArray(ZNumber)>>,
               <<"top_logprobs", ZArray(TopLogProbSchema)>> >>)

\* a schema that forgets a field of the message
MessageSchemaWithoutContent ==
    ZObject(<< <<"role", ZString>> >>)

MessageSchema ==
    ZObject(<< <<"role", ZString>>, <<"content", ZString>> >>)

ChoiceSchema ==
    ZObject(<< <<"index", ZNumber>>,
               <<"message", MessageSchema>>,
               <<"logprobs", ZObject(<< <<"content", ZArray(LogProbContentSchema)>> >>)>>,
               <<"finish_reason", ZString>> >>)

\* a schema that forgets a count
UsageSchemaWithoutTotal ==
    ZObject(<< <<"prompt_tokens", ZNumber>>,
               <<"completion_tokens", ZNumber>> >>)

UsageSchema ==
    ZObject(<< <<"prompt_tokens", ZNumber>>,
               <<"completion_tokens", ZNumber>>,
               <<"total_tokens", ZNumber>> >>)

ChatCompletionSchema ==
    ZObject(<< <<"id", ZString>>,
               <<"object", ZString>>,
               <<"created", ZNumber>>,
               <<"model", ZString>>,
               <<"choices", ZArray(ChoiceSchema)>>,
               <<"usage", UsageSchema>>,
               <<"system_fingerprint", ZNull>> >>)

NotRun == [ran |-> FALSE]

\* ChatCompletionSchema.safeParse(data)
safeParse(d) ==
    LET r == Parse(ChatCompletionSchema, d, <<>>)
    IN  IF r.issues = <<>>
        THEN [ran |-> TRUE, success |-> TRUE, data |-> r.value]
        ELSE [ran |-> TRUE, success |-> FALSE, error |-> r.issues]

(***************************************************************************)
(* The response bodies the API is taken to return.                         *)
(***************************************************************************)
MaxChoices == 1
MaxTokens == 2
MaxTopLogprobs == 2
MaxSeed == 3
MaxPending == 2

Tok == <<"Hi", "hi", "Hello">>

\* logprob values, in halves: 0, -0.5, -1, -12, -12.5, -15
LogProbs == <<0, -1, -2, -24, -25, -30>>

BytesOf(t) ==
    CASE t = "Hi" -> JArr(<<JInt(72), JInt(105)>>)
      [] t = "hi" -> JArr(<<JInt(104), JInt(105)>>)
      [] OTHER -> JArr(<<JInt(72), JInt(101), JInt(108), JInt(108), JInt(111)>>)

TopLogProb(t, lp, bytes) ==
    JObj([token |-> JStr(t), logprob |-> JNum(lp), bytes |-> bytes])

LogProbContent(t, lp, top) ==
    JObj([token |-> JStr(t), logprob |-> JNum(lp), bytes |-> BytesOf(t),
          top_logprobs |-> JArr(top)])

\* the j-th alternative at position i: seed % 3 is the stride through Tok and
\* seed \div 3 the offset from the emitted token, so that a column holds the
\* emitted text in every entry, in one entry, or in none
AltAt(i, j, seed) ==
    LET t == Tok[((i + (seed \div 3) + (seed % 3) * (j - 1)) % 3) + 1]
    IN  TopLogProb(t, LogProbs[((i + j + seed) % Len(LogProbs)) + 1],
                   IF j % 2 = 0 THEN JNull ELSE BytesOf(t))

ContentAt(i, nTop, seed) ==
    LogProbContent(Tok[(i % 3) + 1], LogProbs[((i + seed) % Len(LogProbs)) + 1],
                   [j \in 1..nTop |-> AltAt(i, j, seed)])

Choice(index, content) ==
    JObj([index |-> JInt(index),
          message |-> JObj([role |-> JStr("assistant"), content |-> JStr("Hi")]),
          logprobs |-> JObj([content |-> JArr(content)]),
          finish_reason |-> JStr("stop")])

Doc(nChoices, nTokens, nTop, seed) ==
    JObj([id |-> JStr("chatcmpl-1"),
          object |-> JStr("chat.completion"),
          created |-> JInt(17),
          model |-> JStr("gpt-3.5-turbo"),
          choices |-> JArr([c \in 1..nChoices |->
                        Choice(c - 1, [i \in 1..nTokens |-> ContentAt(i, nTop, seed + c - 1)])]),
          usage |-> JObj([prompt_tokens |-> JInt(9), completion_tokens |-> JInt(nTokens),
                          total_tokens |-> JInt(9 + nTokens)]),
          system_fingerprint |-> JNull])

ShapedDocs ==
    { Doc(nc, nt, np, s) : nc \in 0..MaxChoices, nt \in 0..MaxTokens,
                           np \in 0..MaxTopLogprobs, s \in 0..MaxSeed }

RECURSIVE FieldPaths(_, _)
\* the paths of all the fields of the objects in v
FieldPaths(v, path) ==
    CASE v.k = "object" ->
            UNION { {Append(path, Key(f))} \cup FieldPaths(v.o[f], Append(path, Key(f)))
                    : f \in DOMAIN v.o }
      [] v.k = "array" ->
            UNION { FieldPaths(v.a[i], Append(path, Idx(i - 1))) : i \in DOMAIN v.a }
      [] OTHER -> {}

RECURSIVE SetAt(_, _, _, _)
\* v with the value at path[i..] replaced by new; Undefined deletes the key
SetAt(v, path, i, new) ==
    IF i > Len(path) THEN new
    ELSE IF "key" \in DOMAIN path[i]
    THEN LET f == path[i].key
             old == Get(v, f)
             keep == [x \in DOMAIN v.o \ {f} |-> v.o[x]]
         IN  IF i = Len(path) /\ new = Undefined THEN JObj(keep)
             ELSE JObj((f :> SetAt(old, path, i + 1, new)) @@ keep)
    ELSE JArr([v.a EXCEPT ![path[i].idx + 1] = SetAt(@, path, i + 1, new)])

BaseDoc == Doc(1, 1, 2, 1)

\* BaseDoc with one field deleted, for every field
Removals ==
    { [doc |-> SetAt(BaseDoc, p, 1, Undefined), path |-> p] : p \in FieldPaths(BaseDoc, <<>>) }

\* BaseDoc with one field set to null, for every field
Nulled ==
    { [doc |-> SetAt(BaseDoc, p, 1, JNull), path |-> p] : p \in FieldPaths(BaseDoc, <<>>) }

TokenPath == <<Key("choices"), Idx(0), Key("logprobs"), Key("content"), Idx(0)>>

\* the positions of the numbers that count something
CountPaths ==
    { <<Key("created")>>,
      <<Key("usage"), Key("prompt_tokens")>>,
      <<Key("usage"), Key("completion_tokens")>>,
      <<Key("usage"), Key("total_tokens")>>,
      TokenPath \o <<Key("bytes"), Idx(0)>>,
      TokenPath \o <<Key("bytes"), Idx(1)>> }

\* BaseDoc with 1.5 at one of them
Fractional ==
    { [doc |-> SetAt(BaseDoc, p, 1, JNum(3)), path |-> p] : p \in CountPaths }

Fingerprinted == SetAt(BaseDoc, <<Key("system_fingerprint")>>, 1, JStr("fp_44709d6fcb"))

WithExtraField == SetAt(BaseDoc, <<Key("service_tier")>>, 1, JStr("default"))

\* the body of the API's error responses
ErrorBody ==
    JObj([error |-> JObj([message |-> JStr("Incorrect API key provided"),
                          type |-> JStr("invalid_request_error")])])

Bodies ==
    ShapedDocs \cup { m.doc : m \in Removals \cup Nulled \cup Fractional }
        \cup {Fingerprinted, WithExtraField, ErrorBody}

Statuses == {200, 401}

IsOk(st) == st \in 200..299

\* what the API sends with a status: an error body with a non-2xx one
BodiesFor(st) == IF IsOk(st) THEN Bodies \ {ErrorBody} ELSE {ErrorBody}

Parsed == [d \in Bodies |-> safeParse(d)]

(***************************************************************************)
(* renderTokenColumns                                                      *)
(***************************************************************************)
\* floor(a * p / q) without leaving 32 bits, for p * q < 2^31 and p < q
MulDiv(a, p, q) == (a \div q) * p + ((a % q) * p) \div q

RECURSIVE MathExpTimes100(_)
\* Math.exp(logprob) * 100 for logprob = n/2 <= 0, in units of 1e-7: 20841/34361
\* is exp(-1/2) to within 5e-11, and the value is right to within 20 units
MathExpTimes100(n) ==
    IF n = 0 THEN 1000000000 ELSE MulDiv(MathExpTimes100(n + 1), 20841, 34361)

\* truncation in place of rounding
toFixed3Truncating(x) == x \div 10000

\* x.toFixed(3) for x >= 0 in units of 1e-7: the number of thousandths it prints
toFixed3(x) == (x + 5000) \div 10000

PercentText(logprob) == toFixed3(MathExpTimes100(logprob))

Lower(s) == IF s = "Hi" THEN "hi" ELSE s

\* a comparison that ignores case
ClassNameIgnoringCase(alternativeToken, token) ==
    IF Lower(alternativeToken) = Lower(token) THEN "bg-blue-200" ELSE "bg-gray-100"

ClassName(alternativeToken, token) ==
    IF alternativeToken = token THEN "bg-blue-200" ELSE "bg-gray-100"

Cell(alt, token) ==
    [text |-> Get(alt, "token").s,
     percent |-> PercentText(Get(alt, "logprob").n),
     bg |-> ClassName(Get(alt, "token").s, Get(token, "token").s)]

Column(token) ==
    [header |-> Get(token, "token").s,
     cells |-> [j \in DOMAIN Get(token, "top_logprobs").a |->
                    Cell(Get(token, "top_logprobs").a[j], token)]]

Choices(c) == Get(c, "choices").a

Content(c) == Get(Get(Choices(c)[1], "logprobs"), "content").a

\* completion?.choices[0].logprobs.content.map(...): undefined without a
\* completion, a TypeError when choices[0] is undefined
RenderOf(c) ==
    IF c.k = "null" THEN [kind |-> "undefined"]
    ELSE IF Len(Choices(c)) = 0 THEN [kind |-> "TypeError"]
    ELSE [kind |-> "elements",
          columns |-> [i \in DOMAIN Content(c) |-> Column(Content(c)[i])]]

Rendered == [c \in {JNull} \cup { Parsed[d].data : d \in { b \in Bodies : Parsed[b].success } }
                |-> RenderOf(c)]

renderTokenColumns == Rendered[completion]

(***************************************************************************)
(* The component.                                                          *)
(***************************************************************************)
Init ==
    /\ loading = FALSE
    /\ completion = JNull
    /\ pending = <<>>
    /\ status = 0
    /\ data = Undefined
    /\ result = NotRun
    /\ logged = <<>>

Without(seq, i) == [j \in 1..(Len(seq) - 1) |-> IF j < i THEN seq[j] ELSE seq[j + 1]]

\* a button that is not disabled while loading
ButtonNeverDisabled == renderTokenColumns.kind # "TypeError"

\* <Button onClick={fetchCompletion} disabled={loading}>, of a component whose
\* last render did not throw
ButtonEnabled == ~loading /\ renderTokenColumns.kind # "TypeError"

\* the click, up to the await of fetch
FetchStart ==
    /\ ButtonEnabled
    /\ Len(pending) < MaxPending
    /\ loading' = TRUE
    /\ pending' = Append(pending, "fetch")
    /\ status' = 0
    /\ data' = Undefined
    /\ result' = NotRun
    /\ logged' = <<>>
    /\ UNCHANGED completion

\* fetch rejects (no connection): the catch block
FetchReject ==
    \E i \in DOMAIN pending :
        /\ pending[i] = "fetch"
        /\ logged' = Append(logged, [msg |-> "Error fetching completion:",
                                      error |-> "TypeError: Failed to fetch"])
        /\ loading' = FALSE
        /\ pending' = Without(pending, i)
        /\ UNCHANGED <<completion, status, data, result>>

\* fetch resolves with a response of any status: on to await response.json()
FetchResolve ==
    \E i \in DOMAIN pending, st \in Statuses :
        /\ pending[i] = "fetch"
        /\ status' = st
        /\ pending' = [pending EXCEPT ![i] = "json"]
        /\ UNCHANGED <<loading, completion, data, result, logged>>

\* response.json() rejects (the body is no JSON): the catch block
JsonReject ==
    \E i \in DOMAIN pending :
        /\ pending[i] = "json"
        /\ logged' = Append(logged, [msg |-> "Error fetching completion:",
                                      error |-> "SyntaxError: Unexpected token"])
        /\ loading' = FALSE
        /\ pending' = Without(pending, i)
        /\ UNCHANGED <<completion, status, data, result>>

\* a handler that clears the completion when validation fails
NextCompletionCleared(r) == IF r.success THEN r.data ELSE JNull

\* setCompletion(completion.data) on success only
NextCompletion(r) == IF r.success THEN r.data ELSE completion

\* console.error('Error parsing completion: ', completion.error.errors) otherwise
NextLogged(r) ==
    IF r.success THEN logged
    ELSE Append(logged, [msg |-> "Error parsing completion: ", issues |-> r.error])

\* response.json() resolves: safeParse, and the rest of the handler
JsonResolve ==
    \E i \in DOMAIN pending, body \in BodiesFor(status) :
        /\ pending[i] = "json"
        /\ data' = body
        /\ result' = Parsed[body]
        /\ completion' = NextCompletion(Parsed[body])
        /\ logged' = NextLogged(Parsed[body])
        /\ loading' = FALSE
        /\ pending' = Without(pending, i)
        /\ UNCHANGED status

Next ==
    \/ FetchStart
    \/ FetchReject
    \/ FetchResolve
    \/ JsonReject
    \/ JsonResolve

Spec == Init /\ [][Next]_vars

(***************************************************************************)
(* Properties.                                                             *)
(***************************************************************************)
ParseErrorLogged == \E i \in DOMAIN logged : logged[i].msg = "Error parsing completion: "
FetchErrorLogged == \E i \in DOMAIN logged : logged[i].msg = "Error fetching completion:"

ValidationFailed == result.ran /\ ~result.success

\* C1: when safeParse fails, setCompletion is not called: the completion state
\* and what is rendered from it stay as they were before the request, and the
\* list of issues is what console.error receives.
C1_InvalidResponseKeepsCompletion ==
    [][(~result.ran /\ result'.ran /\ ~result'.success) =>
            /\ completion' = completion
            /\ renderTokenColumns' = renderTokenColumns
            /\ completion' # data'
            /\ result'.error # <<>>
            /\ logged' = <<[msg |-> "Error parsing completion: ", issues |-> result'.error]>>]_vars

C1_Witness ==
    /\ ValidationFailed
    /\ completion # JNull
    /\ ParseErrorLogged

NoColumnsShown ==
    \/ renderTokenColumns.kind = "undefined"
    \/ renderTokenColumns.kind = "elements" /\ Len(renderTokenColumns.columns) = 0

\* C2: if the most recent request ended in a schema violation, no token columns
\* are rendered, also when an earlier request had succeeded.
C2_NoResultsAfterViolation == ValidationFailed => NoColumnsShown

\* C3: rendering a validated completion whose choices are empty signals a
\* RenderPrecondition error, not an undefined-access fault.
C3_EmptyChoicesSignalPrecondition ==
    (completion.k = "object" /\ Len(Choices(completion)) = 0)
        => renderTokenColumns.kind = "RenderPrecondition"

TransportFailure ==
    \/ status # 0 /\ ~IsOk(status)
    \/ FetchErrorLogged

\* C4: a non-2xx response, a malformed body and a connection error are all
\* caught before validation: safeParse is not run on the response and nothing
\* is reported as 'Error parsing completion'.
C4_TransportFailureNotValidated ==
    TransportFailure => (~result.ran /\ ~ParseErrorLogged)

NamesField(issues, path) == \E i \in DOMAIN issues : issues[i].path = path

FingerprintPath == <<Key("system_fingerprint")>>

\* C5: a document that misses a required field, or whose system_fingerprint is
\* absent or not null, fails validation, and an issue's path is exactly the path
\* of that field.
\* The same of every field of the completion when the document has none of them.
C5_MissingFieldIsNamed ==
    /\ \A m \in Removals \cup {[doc |-> Fingerprinted, path |-> FingerprintPath]} :
            (result.ran /\ data = m.doc) =>
                (~result.success /\ NamesField(result.error, m.path))
    /\ (result.ran /\ data = ErrorBody) =>
            /\ ~result.success
            /\ \A i \in DOMAIN ChatCompletionSchema.shape :
                    NamesField(result.error, <<Key(ChatCompletionSchema.shape[i][1])>>)

C5_Witness ==
    /\ result.ran
    /\ data = SetAt(BaseDoc, <<Key("usage"), Key("total_tokens")>>, 1, Undefined)
    /\ ~result.success
    /\ NamesField(result.error, <<Key("usage"), Key("total_tokens")>>)

\* C6: a document that is valid but for a non-integer number in created, in a
\* usage count or in an emitted token's bytes is rejected.
C6_NonIntegerRejected ==
    \A m \in Fractional : (result.ran /\ data = m.doc) => ~result.success

(***************************************************************************)
(* The Completion values of the data model: exactly the fields named, the  *)
(* counts integers >= 0, bytes in 0..255, logprobs <= 0, at least one      *)
(* choice, and system_fingerprint null or absent.                          *)
(***************************************************************************)
IsInteger(v) == v.k = "number" /\ v.n % 2 = 0
HasFields(v, keys) == v.k = "object" /\ DOMAIN v.o = keys
IsStr(v) == v.k = "string"
IsCount(v) == IsInteger(v) /\ v.n >= 0
IsLogProbability(v) == v.k = "number" /\ v.n <= 0
IsByteSequence(v) ==
    v.k = "array" /\ \A i \in DOMAIN v.a : IsInteger(v.a[i]) /\ v.a[i].n \in 0..510
IsTopAlternative(v) ==
    /\ HasFields(v, {"token", "logprob", "bytes"})
    /\ IsStr(v.o["token"])
    /\ IsLogProbability(v.o["logprob"])
    /\ (v.o["bytes"] = JNull \/ IsByteSequence(v.o["bytes"]))
IsEmittedToken(v) ==
    /\ HasFields(v, {"token", "logprob", "bytes", "top_logprobs"})
    /\ IsStr(v.o["token"])
    /\ IsLogProbability(v.o["logprob"])
    /\ IsByteSequence(v.o["bytes"])
    /\ v.o["top_logprobs"].k = "array"
    /\ \A j \in DOMAIN v.o["top_logprobs"].a : IsTopAlternative(v.o["top_logprobs"].a[j])
IsMessage(v) ==
    HasFields(v, {"role", "content"}) /\ IsStr(v.o["role"]) /\ IsStr(v.o["content"])
IsUsage(v) ==
    /\ HasFields(v, {"prompt_tokens", "completion_tokens", "total_tokens"})
    /\ \A f \in DOMAIN v.o : IsCount(v.o[f])
IsChoice(v) ==
    /\ HasFields(v, {"index", "message", "logprobs", "finish_reason"})
    /\ IsCount(v.o["index"])
    /\ IsMessage(v.o["message"])
    /\ HasFields(v.o["logprobs"], {"content"})
    /\ v.o["logprobs"].o["content"].k = "array"
    /\ \A i \in DOMAIN v.o["logprobs"].o["content"].a :
            IsEmittedToken(v.o["logprobs"].o["content"].a[i])
    /\ IsStr(v.o["finish_reason"])
CompletionFields == {"id", "object", "created", "model", "choices", "usage"}
IsCompletion(v) ==
    /\ \/ HasFields(v, CompletionFields)
       \/ HasFields(v, CompletionFields \cup {"system_fingerprint"})
            /\ v.o["system_fingerprint"] = JNull
    /\ IsStr(v.o["id"]) /\ IsStr(v.o["object"]) /\ IsStr(v.o["model"])
    /\ IsInteger(v.o["created"])
    /\ v.o["choices"].k = "array"
    /\ Len(v.o["choices"].a) > 0
    /\ \A c \in DOMAIN v.o["choices"].a : IsChoice(v.o["choices"].a[c])
    /\ IsUsage(v.o["usage"])

Completions == { d \in Bodies : IsCompletion(d) }

RoundTrips == result.success /\ result.data = data /\ completion = data

\* C7 as stated: every Completion of the data model, also one whose
\* system_fingerprint is absent, validates to a value equal to itself.
C7_RoundTripAsStated ==
    (result.ran /\ data \in Completions) => RoundTrips

\* C7: every Completion of the data model whose system_fingerprint is an
\* explicit null validates, and the value produced (and stored) equals it.
C7_RoundTripWithNullFingerprint ==
    (result.ran /\ data \in Completions /\ "system_fingerprint" \in DOMAIN data.o)
        => RoundTrips

C7_Witness ==
    /\ result.ran
    /\ data \in Completions
    /\ "system_fingerprint" \in DOMAIN data.o
    /\ Len(Content(data)) = MaxTokens
    /\ completion = data

HasChoice == completion.k = "object" /\ Len(Choices(completion)) > 0

Top(i) == Get(Content(completion)[i], "top_logprobs").a

Shown(i, j) == renderTokenColumns.columns[i].cells[j]

ColumnsMatch ==
    /\ renderTokenColumns.kind = "elements"
    /\ DOMAIN renderTokenColumns.columns = DOMAIN Content(completion)
    /\ \A i \in DOMAIN Content(completion) :
            DOMAIN renderTokenColumns.columns[i].cells = DOMAIN Top(i)

\* C8: entry j of column i is highlighted iff top_logprobs[j].token equals the
\* emitted token's text at position i exactly, for every i and j of choices[0].
C8_ChosenIffSameText ==
    HasChoice =>
        /\ ColumnsMatch
        /\ \A i \in DOMAIN Content(completion) : \A j \in DOMAIN Top(i) :
                /\ Shown(i, j).text = Get(Top(i)[j], "token").s
                /\ (Shown(i, j).bg = "bg-blue-200")
                      <=> (Get(Top(i)[j], "token").s = Get(Content(completion)[i], "token").s)

\* a column with the emitted text "hi" that holds "hi", highlighted, or "Hi", not
C8_Witness ==
    /\ HasChoice
    /\ \E i \in DOMAIN Content(completion) : \E j \in DOMAIN Top(i) :
            /\ renderTokenColumns.columns[i].header = "hi"
            /\ Shown(i, j).text = "Hi"
            /\ Shown(i, j).bg = "bg-gray-100"
    /\ \E i \in DOMAIN Content(completion) : \E j \in DOMAIN Top(i) :
            Shown(i, j).bg = "bg-blue-200"

Abs(x) == IF x < 0 THEN -x ELSE x

\* the distance of the percentage shown from exp(logprob) * 100, in units of 1e-7
Off(i, j) == Abs(Shown(i, j).percent * 10000 - MathExpTimes100(Get(Top(i)[j], "logprob").n))

\* C9 as stated: the percentage shown is exp(logprob) * 100 to within 1e-9 (here:
\* to within the 20 units of 1e-7 that MathExpTimes100 is exact to), and in (0, 100].
C9_ExactAndPositiveAsStated ==
    HasChoice =>
        \A i \in DOMAIN Content(completion) : \A j \in DOMAIN Top(i) :
            Get(Top(i)[j], "logprob").n <= 0 =>
                /\ Off(i, j) <= 20
                /\ Shown(i, j).percent > 0
                /\ Shown(i, j).percent <= 100000

\* C9: the percentage shown is exp(logprob) * 100 rounded to three decimals: within
\* 0.0005 of it and in [0, 100]; logprob 0 shows 100.000, and a logprob whose
\* percentage is below 0.0005 shows 0.000.
C9_RoundedToThreeDecimals ==
    HasChoice =>
        \A i \in DOMAIN Content(completion) : \A j \in DOMAIN Top(i) :
            Get(Top(i)[j], "logprob").n <= 0 =>
                /\ Off(i, j) <= 5000
                /\ Shown(i, j).percent \in 0..100000
                /\ Get(Top(i)[j], "logprob").n = 0 => Shown(i, j).percent = 100000
                /\ MathExpTimes100(Get(Top(i)[j], "logprob").n) < 5000
                      => Shown(i, j).percent = 0

C9_Witness ==
    /\ HasChoice
    /\ \E i \in DOMAIN Content(completion) : \E j \in DOMAIN Top(i) :
            Get(Top(i)[j], "logprob").n = 0 /\ Shown(i, j).percent = 100000
    /\ \E i \in DOMAIN Content(completion) : \E j \in DOMAIN Top(i) :
            Get(Top(i)[j], "logprob").n < 0 /\ Shown(i, j).percent = 0

\* C10: loading is true iff exactly one fetchCompletion is in flight, and never
\* more than one is; every way a request ends leaves loading false.
C10_LoadingIffOneInFlight ==
    /\ Len(pending) <= 1
    /\ loading <=> Len(pending) = 1

\* a request has ended in the catch block, and the button is enabled again
C10_Witness ==
    /\ FetchErrorLogged
    /\ pending = <<>>
    /\ ~loading

====
